---- MODULE Spec2Model ----
(***************************************************************************)
(* Event dispatch and application lifecycle of the mathanim engine:        *)
(* Application (constructor, Run, OnEvent, OnWindowClose, destructor),     *)
(* Win32Windows (Initialize, OnUpdate, the GLFW size and close callbacks), *)
(* the event classes of ApplicationEvents.h and LOG_CATEGORY_ASSERT.       *)
(* The process is single threaded: pc is the position of the main thread.  *)
(***************************************************************************)
EXTENDS Integers, Sequences, FiniteSets, TLC

\* ---------------------------------------------------------------- bounds
MaxApps == 2        \* Application objects the process may construct
MaxPending == 2     \* platform occurrences waiting in the OS queue
MaxOcc == 2         \* platform occurrences the environment produces in all
MaxPumps == 2       \* loop iterations followed inside one call of Run

Apps == 1..MaxApps
NoApp == 0
Sizes == {<<800, 600>>, <<1024, 768>>}

\* Widths and heights are the non-negative ints GLFW reports, far below 2^31,
\* where the conversion from int to uint32_t keeps the value.

\* ------------------------------------------------- events (ApplicationEvents.h)
EventClasses == {"WindowResizedEvent", "WindowClosedEvent"}

EventClassType_SameTag ==
    [c \in EventClasses |-> "WindowResized"]

\* the tag each class passes to EVENT_CLASS_TYPE
EventClassType ==
    [c \in EventClasses |->
        IF c = "WindowResizedEvent" THEN "WindowResized" ELSE "WindowClosed"]

\* expansion of EVENT_CLASS_TYPE: the static accessor and the virtual one
StaticType(cls) == EventClassType[cls]
GetType(e) == EventClassType[e.cls]

WindowResizedEvent(width, height) ==
    [cls |-> "WindowResizedEvent", Width |-> width,
     Height |-> height, Handled |-> FALSE]

WindowClosedEvent ==
    [cls |-> "WindowClosedEvent", Width |-> 0, Height |-> 0, Handled |-> FALSE]

NoEvent == [cls |-> "none", Width |-> 0, Height |-> 0, Handled |-> FALSE]

\* events a caller can hand to the public Application::OnEvent
TestEvents == {WindowClosedEvent} \cup {WindowResizedEvent(s[1], s[2]) : s \in Sizes}

\* ------------------------------------------------------------- variables
VARIABLES
    defaultProps,        \* the WindowProperties Window::Create() defaults to
    s_Instance,          \* Application::s_Instance (NoApp is nullptr)
    s_IsGLFWInitialized, \* Win32Window.cpp file static
    life,                \* per Application object: unborn, alive, destroyed
    m_IsRunning,         \* Application::m_IsRunning per object
    m_Data,              \* Win32Windows::m_Data of the window each object owns
    pending,             \* occurrences the platform holds for glfwPollEvents
    occLeft,             \* occurrences the environment may still produce
    pc,                  \* main thread: main, check, poll, swap, aborted
    runner,              \* the object whose Run is executing, or NoApp
    iters, pumps, swaps, \* of the current call of Run: loop bodies entered,
                         \* calls of Window::OnUpdate, calls of glfwSwapBuffers
    log,                 \* records written through Logger::Log
    delivered,           \* the event object OnEvent was just handed, as it is
                         \* when OnEvent returns, with its receiver; the
                         \* object is gone with the next step
    lastCtor,            \* the run of Application::Application just made
    closedDelivered,     \* per object: a WindowClosedEvent was handed to OnEvent
    lastResize,          \* per window: the size of the last resize the platform
                         \* reported for it, NoSize if none
    toggled,             \* per window: the argument of the last ToggleVSync a
                         \* user of the window made, "none" if none
    badCall              \* an occurrence reached an empty data.Handler

vars == <<defaultProps, s_Instance, s_IsGLFWInitialized, life, m_IsRunning, m_Data, pending,
          occLeft, pc, runner, iters, pumps, swaps, log, delivered,
          lastCtor, closedDelivered, lastResize, toggled, badCall>>

NoData == [Width |-> 0, Height |-> 0, IsVSyncEnabled |-> FALSE, Handler |-> "unset"]
NoSize == <<0, 0>>
\* seenWidth, seenHeight: GetWidth() and GetHeight() of the receiver's window
\* while the handler runs
NoDelivery == [event |-> NoEvent, app |-> NoApp, invoked |-> 0,
               seenWidth |-> 0, seenHeight |-> 0]
NoCtor == [app |-> NoApp, fatal |-> FALSE, aliveBefore |-> 0, builtBefore |-> 0]

AssertInstanceMsg == "Assertion Failed: Application already exists!"
AssertGLFWMsg == "Assertion Failed: Could not initialize GLFW!"
AssertGladMsg == "Assertion Failed: Failed to initialize Glad!"
CreateWindowMsg == "Create window"

Init ==
    /\ defaultProps \in Sizes
    /\ s_Instance = NoApp
    /\ s_IsGLFWInitialized = FALSE
    /\ life = [a \in Apps |-> "unborn"]
    /\ m_IsRunning = [a \in Apps |-> TRUE]
    /\ m_Data = [a \in Apps |-> NoData]
    /\ pending = <<>>
    /\ occLeft = MaxOcc
    /\ pc = "main"
    /\ runner = NoApp
    /\ iters = 0 /\ pumps = 0 /\ swaps = 0
    /\ log = <<>>
    /\ delivered = NoDelivery
    /\ lastCtor = NoCtor
    /\ closedDelivered = [a \in Apps |-> FALSE]
    /\ lastResize = [a \in Apps |-> NoSize]
    /\ toggled = [a \in Apps |-> "none"]
    /\ badCall = FALSE

\* ------------------------------------------------ Application event routing
OnWindowClose_ReturnsFalse(a, running) ==
    [IsRunning |-> [running EXCEPT ![a] = FALSE], ret |-> FALSE]

OnWindowClose_KeepsRunning(a, running) ==
    [IsRunning |-> running, ret |-> TRUE]

OnWindowClose_Toggles(a, running) ==
    [IsRunning |-> [running EXCEPT ![a] = ~@], ret |-> TRUE]

\* Application::OnWindowClose: the new flags and the value returned
OnWindowClose(a, running) ==
    [IsRunning |-> [running EXCEPT ![a] = FALSE], ret |-> TRUE]

\* EventDispather::Dispatch<T>(handler): on a tag match the handler runs once
\* and its result is written to Handled, otherwise nothing happens.
\* h is the effect the bound handler has when it is invoked.
Dispatch(T, e, h, running, lg) ==
    IF GetType(e) = StaticType(T)
    THEN [event |-> [e EXCEPT !.Handled = h.ret], IsRunning |-> h.IsRunning,
          invoked |-> 1, log |-> lg]
    ELSE [event |-> e, IsRunning |-> running, invoked |-> 0, log |-> lg]

OnEvent_DispatchesResize(a, e, running, lg) ==
    Dispatch("WindowResizedEvent", e, OnWindowClose(a, running), running, lg)

OnEvent_LogsEvent(a, e, running, lg) ==
    Dispatch("WindowClosedEvent", e, OnWindowClose(a, running), running,
             Append(lg, "Event"))

\* Application::OnEvent on object a
OnEvent(a, e, running, lg) ==
    Dispatch("WindowClosedEvent", e, OnWindowClose(a, running), running, lg)

\* ------------------------------------------------------------ Win32Windows
ToggleVSync_AlwaysOn(data, enabled) == [data EXCEPT !.IsVSyncEnabled = TRUE]

\* Win32Windows::ToggleVSync
ToggleVSync(data, enabled) == [data EXCEPT !.IsVSyncEnabled = enabled]

\* Win32Windows::Initialize as far as m_Data goes: the size of the properties,
\* vsync switched on; the handler slot is left empty
Initialize(props) ==
    ToggleVSync([Width |-> props[1], Height |-> props[2],
                 IsVSyncEnabled |-> FALSE, Handler |-> "unset"], TRUE)

SizeCallbackData_Swapped(data, width, height) ==
    [data EXCEPT !.Width = height, !.Height = width]

\* the window size callback, "Update window data"
SizeCallbackData(data, width, height) ==
    [data EXCEPT !.Width = width, !.Height = height]

\* Window::SetEventCallback
SetEventCallback(data, callback) == [data EXCEPT !.Handler = callback]

CreateAppWindow_NoCallback(props) == Initialize(props)

\* Application::Application, lines 14-15: the window the object ends up with
CreateAppWindow(props) == SetEventCallback(Initialize(props), "OnEvent")

InstanceAssertFails_Inverted(inst) == inst = NoApp

\* LOG_CATEGORY_ASSERT(!s_Instance, ...): the condition under which it fires
InstanceAssertFails(inst) == ~(inst = NoApp)

OnUpdateSteps_SwapFirst == <<"swap", "poll">>

\* Win32Windows::OnUpdate: the calls it makes, in order
OnUpdateSteps == <<"poll", "swap">>
StepAfter(step) == IF step = OnUpdateSteps[1] THEN OnUpdateSteps[2] ELSE "check"

LoopCondition_Always(a) == TRUE

LoopCondition_DoWhile(a) == m_IsRunning[a] \/ iters = 0

\* Application::Run: the condition of its while loop
LoopCondition(a) == m_IsRunning[a]

PollFinished_OrStopped == pending = <<>> \/ ~m_IsRunning[runner]

PollFinished_Early == TRUE

\* glfwPollEvents returns once no occurrence is left
PollFinished == pending = <<>>

Alive == {a \in Apps : life[a] = "alive"}
Built == {a \in Apps : life[a] # "unborn"}
RECURSIVE DropWindow(_, _)
DropWindow(q, w) ==
    IF q = <<>> THEN <<>>
    ELSE IF Head(q).win = w THEN DropWindow(Tail(q), w)
         ELSE <<Head(q)>> \o DropWindow(Tail(q), w)

\* ----------------------------------------------------------------- actions
\* Application::Application on the next object. The instance assertion logs
\* and hits __debugbreak(): the process dies there, or a debugger resumes it
\* and construction goes on. A failed glfwInit or glad load ends the process.
Construct(a, resume, glfwOk, gladOk) ==
    /\ pc = "main"
    /\ life[a] = "unborn"
    /\ \A b \in Apps : b < a => life[b] # "unborn"
    /\ LET fails == InstanceAssertFails(s_Instance)
           log1 == IF fails THEN Append(log, AssertInstanceMsg) ELSE log
           log2 == Append(log1, CreateWindowMsg)
           initOk == s_IsGLFWInitialized \/ glfwOk
       IN /\ lastCtor' = [app |-> a, fatal |-> fails,
                          aliveBefore |-> Cardinality(Alive),
                          builtBefore |-> Cardinality(Built)]
          /\ IF fails /\ ~resume
             THEN /\ log' = log1
                  /\ pc' = "aborted"
                  /\ UNCHANGED <<s_Instance, s_IsGLFWInitialized, life,
                                 m_IsRunning, m_Data>>
             ELSE /\ s_Instance' = a
                  /\ IF ~initOk
                     THEN /\ log' = Append(log2, AssertGLFWMsg)
                          /\ pc' = "aborted"
                          /\ UNCHANGED <<s_IsGLFWInitialized, life,
                                         m_IsRunning, m_Data>>
                     ELSE /\ s_IsGLFWInitialized' = TRUE
                          /\ IF ~gladOk
                             THEN /\ log' = Append(log2, AssertGladMsg)
                                  /\ pc' = "aborted"
                                  /\ UNCHANGED <<life, m_IsRunning, m_Data>>
                             ELSE /\ log' = log2
                                  /\ life' = [life EXCEPT ![a] = "alive"]
                                  /\ m_IsRunning' = [m_IsRunning EXCEPT ![a] = TRUE]
                                  /\ m_Data' = [m_Data EXCEPT ![a] = CreateAppWindow(defaultProps)]
                                  /\ UNCHANGED pc
    /\ UNCHANGED <<defaultProps, lastResize, toggled, pending, occLeft, runner, iters, pumps, swaps,
                   closedDelivered, badCall>>
    /\ delivered' = NoDelivery

\* Application::~Application (defaulted): the window is released, its
\* occurrences go with it; s_Instance is not touched
Destroy(a) ==
    /\ pc = "main"
    /\ life[a] = "alive"
    /\ life' = [life EXCEPT ![a] = "destroyed"]
    /\ pending' = DropWindow(pending, a)
    /\ m_Data' = [m_Data EXCEPT ![a] = NoData]
    /\ lastResize' = [lastResize EXCEPT ![a] = NoSize]
    /\ toggled' = [toggled EXCEPT ![a] = "none"]
    /\ UNCHANGED <<defaultProps, s_Instance, s_IsGLFWInitialized, m_IsRunning, occLeft,
                   pc, runner, iters, pumps, swaps, log, closedDelivered, badCall>>
    /\ lastCtor' = NoCtor
    /\ delivered' = NoDelivery

\* data.Handler(event) with the callback Application registered
HandlerCall(w, e, data) ==
    LET r == OnEvent(w, e, m_IsRunning, log)
    IN /\ m_IsRunning' = r.IsRunning
       /\ log' = r.log
       /\ delivered' = [event |-> r.event, app |-> w, invoked |-> r.invoked,
                        seenWidth |-> data.Width, seenHeight |-> data.Height]
       /\ closedDelivered' =
              [closedDelivered EXCEPT ![w] = @ \/ e.cls = "WindowClosedEvent"]

\* data.Handler(event) from a GLFW callback: an empty std::function throws
\* out of the C callback and the process ends
CallbackInvoke(w, e) ==
    IF m_Data'[w].Handler = "unset"
    THEN /\ badCall' = TRUE
         /\ pc' = "aborted"
         /\ UNCHANGED <<m_IsRunning, log, closedDelivered>>
         /\ delivered' = NoDelivery
    ELSE /\ HandlerCall(w, e, m_Data'[w])
         /\ UNCHANGED <<pc, badCall>>

\* a caller of the public Application::OnEvent, outside Run
CallOnEvent(a, e) ==
    /\ pc = "main"
    /\ life[a] = "alive"
    /\ HandlerCall(a, e, m_Data[a])
    /\ UNCHANGED <<defaultProps, lastResize, toggled, s_Instance, s_IsGLFWInitialized, life, m_Data, pending,
                   occLeft, pc, runner, iters, pumps, swaps, badCall>>
    /\ lastCtor' = NoCtor

\* the user resizes or closes a window: the platform holds the occurrence
\* until glfwPollEvents
PlatformResize(w, size) ==
    /\ pc # "aborted"
    /\ life[w] = "alive"
    /\ occLeft > 0
    /\ Len(pending) < MaxPending
    /\ pending' = Append(pending, [win |-> w, kind |-> "size",
                                   width |-> size[1], height |-> size[2]])
    /\ occLeft' = occLeft - 1
    /\ UNCHANGED <<defaultProps, lastResize, toggled, s_Instance, s_IsGLFWInitialized, life, m_IsRunning, m_Data,
                   pc, runner, iters, pumps, swaps, log, closedDelivered, badCall>>
    /\ lastCtor' = NoCtor
    /\ delivered' = NoDelivery

PlatformClose(w) ==
    /\ pc # "aborted"
    /\ life[w] = "alive"
    /\ occLeft > 0
    /\ Len(pending) < MaxPending
    /\ pending' = Append(pending, [win |-> w, kind |-> "close",
                                   width |-> 0, height |-> 0])
    /\ occLeft' = occLeft - 1
    /\ UNCHANGED <<defaultProps, lastResize, toggled, s_Instance, s_IsGLFWInitialized, life, m_IsRunning, m_Data,
                   pc, runner, iters, pumps, swaps, log, closedDelivered, badCall>>
    /\ lastCtor' = NoCtor
    /\ delivered' = NoDelivery

\* Application::Run is called on object a
RunCall(a) ==
    /\ pc = "main"
    /\ life[a] = "alive"
    /\ pc' = "check"
    /\ runner' = a
    /\ iters' = 0 /\ pumps' = 0 /\ swaps' = 0
    /\ UNCHANGED <<defaultProps, lastResize, toggled, s_Instance, s_IsGLFWInitialized, life, m_IsRunning, m_Data,
                   pending, occLeft, log, closedDelivered, badCall>>
    /\ lastCtor' = NoCtor
    /\ delivered' = NoDelivery

\* the loop condition holds: clear, draw and enter m_Window->OnUpdate()
RunIterate ==
    /\ pc = "check"
    /\ LoopCondition(runner)
    /\ iters < MaxPumps
    /\ iters' = iters + 1
    /\ pumps' = pumps + 1
    /\ pc' = OnUpdateSteps[1]
    /\ UNCHANGED <<defaultProps, lastResize, toggled, s_Instance, s_IsGLFWInitialized, life, m_IsRunning, m_Data,
                   pending, occLeft, runner, swaps, log, closedDelivered, badCall>>
    /\ lastCtor' = NoCtor
    /\ delivered' = NoDelivery

\* the loop condition fails: Run returns to its caller
RunReturn ==
    /\ pc = "check"
    /\ ~LoopCondition(runner)
    /\ pc' = "main"
    /\ runner' = NoApp
    /\ UNCHANGED <<defaultProps, lastResize, toggled, s_Instance, s_IsGLFWInitialized, life, m_IsRunning, m_Data,
                   pending, occLeft, iters, pumps, swaps, log, closedDelivered, badCall>>
    /\ lastCtor' = NoCtor
    /\ delivered' = NoDelivery

\* glfwPollEvents runs the window size callback for the oldest occurrence
SizeCallback ==
    /\ pc = "poll"
    /\ pending # <<>>
    /\ Head(pending).kind = "size"
    /\ LET occ == Head(pending)
           w == occ.win
       IN /\ m_Data' = [m_Data EXCEPT ![w] = SizeCallbackData(@, occ.width, occ.height)]
          /\ lastResize' = [lastResize EXCEPT ![w] = <<occ.width, occ.height>>]
          /\ CallbackInvoke(w, WindowResizedEvent(occ.width, occ.height))
    /\ pending' = Tail(pending)
    /\ UNCHANGED <<defaultProps, toggled, s_Instance, s_IsGLFWInitialized, life, occLeft, runner, iters,
                   pumps, swaps>>
    /\ lastCtor' = NoCtor

\* glfwPollEvents runs the window close callback for the oldest occurrence
CloseCallback ==
    /\ pc = "poll"
    /\ pending # <<>>
    /\ Head(pending).kind = "close"
    /\ m_Data' = m_Data
    /\ CallbackInvoke(Head(pending).win, WindowClosedEvent)
    /\ pending' = Tail(pending)
    /\ UNCHANGED <<defaultProps, lastResize, toggled, s_Instance, s_IsGLFWInitialized, life, occLeft, runner, iters,
                   pumps, swaps>>
    /\ lastCtor' = NoCtor

\* glfwPollEvents returns
PollDone ==
    /\ pc = "poll"
    /\ PollFinished
    /\ pc' = StepAfter("poll")
    /\ UNCHANGED <<defaultProps, lastResize, toggled, s_Instance, s_IsGLFWInitialized, life, m_IsRunning, m_Data,
                   pending, occLeft, runner, iters, pumps, swaps, log,
                   closedDelivered, badCall>>
    /\ lastCtor' = NoCtor
    /\ delivered' = NoDelivery

\* glfwSwapBuffers
SwapBuffers ==
    /\ pc = "swap"
    /\ swaps' = swaps + 1
    /\ pc' = StepAfter("swap")
    /\ UNCHANGED <<defaultProps, lastResize, toggled, s_Instance, s_IsGLFWInitialized, life, m_IsRunning, m_Data,
                   pending, occLeft, runner, iters, pumps, log, closedDelivered, badCall>>
    /\ lastCtor' = NoCtor
    /\ delivered' = NoDelivery

Next ==
    \/ \E a \in Apps, resume, glfwOk, gladOk \in BOOLEAN :
          Construct(a, resume, glfwOk, gladOk)
    \/ \E a \in Apps : Destroy(a)
    \/ \E a \in Apps, e \in TestEvents : CallOnEvent(a, e)
    \/ \E w \in Apps, size \in Sizes : PlatformResize(w, size)
    \/ \E w \in Apps : PlatformClose(w)
    \/ \E a \in Apps : RunCall(a)
    \/ RunIterate
    \/ RunReturn
    \/ SizeCallback
    \/ CloseCallback
    \/ PollDone
    \/ SwapBuffers

Spec == Init /\ [][Next]_vars

\* the main thread, once inside Run, keeps executing
RunStep ==
    RunIterate \/ RunReturn \/ SizeCallback \/ CloseCallback \/ PollDone \/ SwapBuffers

FairSpec == Spec /\ WF_vars(RunStep)

\* ------------------------------------------------------------ step shapes
\* a GLFW callback ran for the oldest occurrence
CallbackStep == pc = "poll" /\ pending # <<>> /\ pending' = Tail(pending)
\* OnEvent was handed a WindowResizedEvent, by a callback or by a caller
ResizeDelivered ==
    \/ CallbackStep /\ Head(pending).kind = "size"
    \/ pc = "main" /\ delivered' # delivered
          /\ delivered'.event.cls = "WindowResizedEvent"
\* Window::OnUpdate is entered
PumpStarts == pumps' > pumps

\* ------------------------------------------------------------------ claims
\* C1: when OnEvent receives a WindowClosedEvent the close handler runs
\* exactly once for it, the event's Handled flag is true when OnEvent
\* returns, and the receiving Application's IsRunning flag is false.
C1_CloseEventStops ==
    delivered.event.cls = "WindowClosedEvent" =>
        /\ delivered.invoked = 1
        /\ delivered.event.Handled
        /\ ~m_IsRunning[delivered.app]

C1_Witness ==
    /\ delivered.event.cls = "WindowClosedEvent"
    /\ delivered.app \in Alive
    /\ delivered.event.Handled

\* C2: when OnEvent receives a WindowResizedEvent of any size the close
\* handler is not invoked, Handled stays false and no IsRunning flag changes.
C2_ResizeIsNoOp ==
    /\ [](delivered.event.cls = "WindowResizedEvent" =>
            delivered.invoked = 0 /\ ~delivered.event.Handled)
    /\ [][ResizeDelivered => m_IsRunning' = m_IsRunning]_vars

C2_Witness ==
    /\ delivered.event.cls = "WindowResizedEvent"
    /\ delivered.event.Width = 1024
    /\ delivered.app \in Alive
    /\ m_IsRunning[delivered.app]

\* C3: once the IsRunning flag of the object whose Run executes is false, Run
\* enters Window::OnUpdate no more, and Run returns to its caller.
C3_NoPumpAfterStop ==
    /\ [][PumpStarts => runner # NoApp /\ m_IsRunning[runner]]_vars
    /\ (runner # NoApp /\ ~m_IsRunning[runner]) ~> (runner = NoApp)

C3_Witness ==
    /\ pc = "main"
    /\ runner = NoApp
    /\ pumps >= 1 /\ swaps = pumps
    /\ \E a \in Alive : ~m_IsRunning[a] /\ closedDelivered[a]

\* C4: for every object IsRunning is true exactly as long as no
\* WindowClosedEvent has been handed to its OnEvent, and a loop that finds the
\* flag false at its check does nothing but return.
C4_RunningUntilClose ==
    /\ [](\A a \in Apps : m_IsRunning[a] <=> ~closedDelivered[a])
    /\ [][(pc = "check" /\ ~m_IsRunning[runner] /\ pc' # pc) =>
             (pc' = "main" /\ runner' = NoApp)]_vars

C4_Witness ==
    /\ pc = "check"
    /\ pumps >= 1
    /\ closedDelivered[runner]
    /\ ~m_IsRunning[runner]
    /\ \E b \in Alive : b # runner /\ m_IsRunning[b] /\ m_Data[b].Width # defaultProps[1]

\* C5: after a close handler has cleared IsRunning in the middle of a pump,
\* the occurrences still pending are handed to OnEvent, glfwPollEvents is
\* left only with nothing pending and for the buffer swap, the swap is made,
\* and Run returns only from the check at the top of the loop.
C5_NoMidIterationAbort ==
    /\ [][(pc = "poll" /\ ~m_IsRunning[runner] /\ pc' # pc) =>
             (pending = <<>> /\ pc' = "swap")]_vars
    /\ [][(pc = "poll" /\ ~m_IsRunning[runner] /\ pending' # pending /\ pending # <<>>
             /\ Len(pending') <= Len(pending)) =>
             (pending' = Tail(pending) /\ delivered'.app = Head(pending).win
              /\ (delivered'.event.cls = "WindowResizedEvent"
                     <=> Head(pending).kind = "size"))]_vars
    /\ [][(pc = "swap" /\ ~m_IsRunning[runner] /\ pc' # pc) =>
             (swaps' = swaps + 1 /\ pc' = "check")]_vars
    /\ [][(runner # NoApp /\ runner' = NoApp) => pc = "check"]_vars

C5_Witness ==
    /\ pc = "poll"
    /\ ~m_IsRunning[runner]
    /\ pending = <<>>
    /\ delivered.app = runner
    /\ delivered.event.cls = "WindowResizedEvent"

\* C6: every loop iteration of Run makes exactly one call of Window::OnUpdate,
\* and inside it the platform occurrences are handled (each by one callback)
\* before the buffer swap of that call.
C6_OnePumpPerIteration ==
    /\ [](pumps = iters)
    /\ [](pc \in {"check", "main"} => swaps = pumps)
    /\ [](pc \in {"poll", "swap"} => swaps = pumps - 1)
    /\ [][(Len(pending') < Len(pending) /\ pc # "main") =>
             (pc = "poll" /\ swaps = pumps - 1 /\ swaps' = swaps)]_vars

C6_Witness ==
    /\ pc = "swap"
    /\ pumps = 2
    /\ m_Data[runner].Width # defaultProps[1]

\* C7: a constructor run while another Application object exists takes the
\* fatal path of the instance assertion (the error is logged and the
\* breakpoint hit); the first constructor run of the process does not.
InstanceAssertLogged == \E i \in 1..Len(log) : log[i] = AssertInstanceMsg

C7_SecondInstanceFatal ==
    lastCtor.app # NoApp =>
        /\ lastCtor.aliveBefore >= 1 => (lastCtor.fatal /\ InstanceAssertLogged)
        /\ lastCtor.builtBefore = 0 => (~lastCtor.fatal /\ ~InstanceAssertLogged)

C7_Witness ==
    /\ lastCtor.aliveBefore >= 1
    /\ lastCtor.fatal
    /\ life[lastCtor.app] = "alive"

C9_ResizeIsLogged ==
    [][ResizeDelivered =>
         (Len(log') > Len(log) /\ m_IsRunning' = m_IsRunning)]_vars

\* C9 amended: an event without a matching handler is dropped silently:
\* OnEvent writes no log record for it and changes no Application state.
C9_ResizeDroppedSilently ==
    [][ResizeDelivered =>
         (log' = log /\ m_IsRunning' = m_IsRunning /\ s_Instance' = s_Instance
          /\ life' = life)]_vars

C9_Witness ==
    /\ delivered.event.cls = "WindowResizedEvent"
    /\ delivered.event.Width = 800
    /\ ~delivered.event.Handled
    /\ Len(log) = 1

\* C10: every existing Application has OnEvent registered with its window
\* from its construction on, so no platform occurrence reaches an empty
\* callback slot.
C10_CallbackRegistered ==
    /\ ~badCall
    /\ \A a \in Alive : m_Data[a].Handler = "OnEvent"

C10_Witness ==
    /\ pc = "poll"
    /\ pumps = 1
    /\ delivered.app = runner
    /\ closedDelivered[runner]
    /\ ~badCall

\* the event object a GLFW callback builds for an occurrence
EventOf(occ) ==
    IF occ.kind = "size" THEN WindowResizedEvent(occ.width, occ.height)
    ELSE WindowClosedEvent

\* C11: events are not queued, kept or replayed: an occurrence leaves the
\* platform only inside a pump (or with its window), oldest first; its
\* callback hands exactly one event object, built from it, to the handler of
\* its window in that same step; every delivery inside Run consumes one
\* occurrence; and glfwPollEvents leaves nothing behind for a later pump.
C11_NoQueueNoReplay ==
    /\ [][(Len(pending') < Len(pending)) =>
             (pc = "poll" \/ (pc = "main" /\ life' # life))]_vars
    /\ [][(pc = "poll" /\ Len(pending') < Len(pending)) =>
             /\ pending' = Tail(pending)
             /\ delivered'.app = Head(pending).win
             /\ delivered'.event.cls = EventOf(Head(pending)).cls
             /\ delivered'.event.Width = EventOf(Head(pending)).Width
             /\ delivered'.event.Height = EventOf(Head(pending)).Height]_vars
    /\ [][(pc # "main" /\ delivered'.app # NoApp) =>
             (pc = "poll" /\ pending # <<>> /\ pending' = Tail(pending))]_vars
    /\ [][(pc = "poll" /\ pc' # "poll") => pending = <<>>]_vars

C11_Witness ==
    /\ pc = "poll"
    /\ pending # <<>>
    /\ delivered.app # NoApp
    /\ delivered.event.cls = "WindowResizedEvent"
    /\ Head(pending).kind = "close"

\* C12: IsRunning is monotone: an Application comes into existence with the
\* flag true, and a flag that is false stays false whatever events and pumps
\* follow, a second WindowClosedEvent included.
C12_RunningMonotone ==
    /\ [][\A a \in Apps : (life[a] = "unborn" /\ life'[a] = "alive") =>
                               m_IsRunning'[a]]_vars
    /\ [][\A a \in Apps : ~m_IsRunning[a] => ~m_IsRunning'[a]]_vars

C12_Witness ==
    /\ Cardinality(Built) = 1
    /\ pc = "main"
    /\ pumps >= 1
    /\ delivered.event.cls = "WindowClosedEvent"
    /\ delivered.app \in Alive
    /\ ~m_IsRunning[delivered.app]

\* C13: when a WindowClosedEvent was handed to OnEvent before Run is called,
\* the call of Run starts with no pump made, and from its first check of the
\* loop condition the only thing Run does is return, still with zero pumps.
C13_ClosedBeforeRun ==
    /\ [][(pc = "main" /\ pc' = "check" /\ closedDelivered[runner']) =>
             pumps' = 0]_vars
    /\ [][(pc = "check" /\ pumps = 0 /\ closedDelivered[runner] /\ pc' # pc) =>
             (pc' = "main" /\ runner' = NoApp /\ pumps' = 0 /\ swaps' = 0)]_vars

C13_Witness ==
    /\ pc = "check"
    /\ pumps = 0
    /\ closedDelivered[runner]
    /\ Cardinality(Built) = 1
    /\ occLeft = MaxOcc

\* Win32Windows::GetWidth and GetHeight
GetWidth(w) == m_Data[w].Width
GetHeight(w) == m_Data[w].Height

\* C14: the stored size of a window is that of the last resize the platform
\* reported for it, and the size it was created with if there was none; and
\* while the handler runs for a WindowResizedEvent built by the size
\* callback, GetWidth and GetHeight already return the size the event carries.
C14_SizeFollowsResize ==
    /\ \A w \in Alive :
          <<GetWidth(w), GetHeight(w)>> =
              IF lastResize[w] = NoSize THEN defaultProps ELSE lastResize[w]
    /\ (pc = "poll" /\ delivered.event.cls = "WindowResizedEvent") =>
          /\ delivered.seenWidth = delivered.event.Width
          /\ delivered.seenHeight = delivered.event.Height
          /\ lastResize[delivered.app] = <<delivered.event.Width, delivered.event.Height>>

C14_Witness ==
    /\ pc = "poll"
    /\ delivered.event.cls = "WindowResizedEvent"
    /\ delivered.seenWidth = 1024 /\ delivered.seenHeight = 768
    /\ defaultProps = <<800, 600>>
    /\ \E w \in Alive : w # delivered.app /\ lastResize[w] = NoSize
                           /\ GetWidth(w) = 800

\* C15: the single-instance check concerns objects that exist together: a
\* constructor run when every earlier Application has been destroyed does
\* not take the fatal path of the instance assertion.
C15_FreshAfterTeardown ==
    (lastCtor.app # NoApp /\ lastCtor.builtBefore >= 1 /\ lastCtor.aliveBefore = 0)
        => ~lastCtor.fatal

\* ------------------------------------------------- the window used directly
\* a user of the Window interface calls ToggleVSync on window w
CallToggleVSync(w, enabled) ==
    /\ pc = "main"
    /\ life[w] = "alive"
    /\ m_Data' = [m_Data EXCEPT ![w] = ToggleVSync(@, enabled)]
    /\ toggled' = [toggled EXCEPT ![w] = IF enabled THEN "on" ELSE "off"]
    /\ delivered' = NoDelivery
    /\ UNCHANGED <<defaultProps, s_Instance, s_IsGLFWInitialized, life,
                   m_IsRunning, pending, occLeft, pc, runner, iters, pumps,
                   swaps, log, closedDelivered, lastResize, badCall>>
    /\ lastCtor' = NoCtor

\* Win32Windows::IsVSyncEnabled
IsVSyncEnabled(w) == m_Data[w].IsVSyncEnabled

\* windows are created, used through the Window interface and destroyed,
\* while the platform reports occurrences; no Run is in progress
WindowNext ==
    \/ \E a \in Apps, resume, glfwOk, gladOk \in BOOLEAN :
          Construct(a, resume, glfwOk, gladOk)
    \/ \E a \in Apps : Destroy(a)
    \/ \E w \in Apps, enabled \in BOOLEAN : CallToggleVSync(w, enabled)
    \/ \E w \in Apps, size \in Sizes : PlatformResize(w, size)
    \/ \E w \in Apps : PlatformClose(w)

WindowSpec == Init /\ [][WindowNext]_vars

\* C16: IsVSyncEnabled() of a window returns the argument of the last
\* ToggleVSync call made on it, and true for a window on which none was made
\* since its creation.
C16_VSyncIsLastToggle ==
    \A w \in Alive : IsVSyncEnabled(w) <=> toggled[w] # "off"

C16_Witness ==
    \E w, v \in Alive :
        /\ toggled[w] = "off" /\ ~IsVSyncEnabled(w)
        /\ toggled[v] = "none" /\ IsVSyncEnabled(v)
====
